---------------------------- MODULE Spec2Model ----------------------------
(***************************************************************************)
(* Library management backend: the relational store (users, books,        *)
(* transactions) and the request handlers that change it.                  *)
(*                                                                         *)
(* The store is the three tables of app/database.py.  Every handler runs   *)
(* in its own ORM session (database.py get_db): what it has read is a      *)
(* private snapshot, what it writes reaches the store at db.commit() in    *)
(* one piece.  PATCH /books/{isbn}/status is modelled statement by         *)
(* statement, so that requests served by different worker threads can      *)
(* interleave between a query and the commit.  The routes under /admin     *)
(* are modelled dependency by dependency: get_current_user, then the role  *)
(* check, then the handler.                                                *)
(***************************************************************************)
EXTENDS Naturals, Sequences, FiniteSets, Bags

VARIABLES users, books, transactions, inflight, resp, now, requests

vars == <<users, books, transactions, inflight, resp, now, requests>>

---------------------------------------------------------------------------
(* Bounds of the exploration *)

MaxRequests == 3    \* status requests that entered the handler

(* Inputs *)

Usernames == {"alice", "bob"}
EmailOf(u) == IF u = "alice" THEN "a@x.com" ELSE "b@x.com"
BookInputs ==
    {<<"Dune", "Herbert", "999">>, <<"Emma", "Austen", "111">>,
     <<" ", "Herbert", "999">>, <<"Dune", "", "999">>,
     <<"Dune", "Herbert", "N/A">>, <<"Dune", "Herbert", " ">>}
ISBNs == {"999", "111"}
StatusInputs == {"available", "borrowed", "lost"}
Emails == {"a@x.com", "b@x.com"}
Passwords == {"pw1", "pw2"}
PasswordOf(u) == IF u = "alice" THEN "pw1" ELSE "pw2"
RoleInputs == {"user", "admin", "root"}

(* What the external catalogue may answer to a search: a list of items,
   each with its list of industry identifiers (type, identifier) *)
Identifier(type, identifier) == [type |-> type, identifier |-> identifier]
Item(id, identifiers) == [id |-> id, identifiers |-> identifiers]
CatalogInputs ==
    LET dune == Item("g1", <<Identifier("ISBN_13", "999")>>)
        emma == Item("g2", <<Identifier("OTHER", "OCLC:7"), Identifier("ISBN_10", "111")>>)
        bare == Item("g3", <<>>)
        oclc == Item("g4", <<Identifier("OTHER", "OCLC:9")>>)
    IN {<<>>, <<dune>>, <<dune, dune>>, <<dune, emma>>, <<bare>>, <<emma, oclc>>}

(* SQL NULL, for the nullable columns and for a query's .first() that
   found no row; ids and clock readings start at 1 *)
NULL == 0

---------------------------------------------------------------------------
(* Tables: app/database.py *)

User(id, username, email, hashed_password, role) ==
    [id |-> id, username |-> username, email |-> email,
     hashed_password |-> hashed_password, role |-> role]

Book(id, title, author, isbn) ==
    [id |-> id, title |-> title, author |-> author, isbn |-> isbn,
     status |-> "available"]

Transaction(id, user_id, book_id, borrow_date, status) ==
    [id |-> id, user_id |-> user_id, book_id |-> book_id,
     borrow_date |-> borrow_date, return_date |-> NULL, status |-> status]

Rows(table) == {table[i] : i \in 1..Len(table)}

(* str.strip() on the inputs drawn above *)
strip(s) == IF s \in {"", " "} THEN "" ELSE s

(* The last response sent: the handler that answered, the HTTP status
   code, and the status request it answers *)
Response(op, code, uid, isbn, status) ==
    [op |-> op, code |-> code, uid |-> uid, isbn |-> isbn, status |-> status]

Init ==
    /\ users = <<>>
    /\ books = <<>>
    /\ transactions = <<>>
    /\ inflight = EmptyBag
    /\ resp = Response("none", 0, NULL, "", "")
    /\ now = 1
    /\ requests = 0

(* datetime.utcnow() has microsecond resolution: every reading is later
   than the reading before it.  now is the next reading *)
utcnow == now

---------------------------------------------------------------------------
(* Passwords and tokens: app/auth_utils.py *)

(* passlib's bcrypt: the hash is not the password, and a password verifies
   against the hashes made from it and against no other.  The salt is left
   out: no handler compares two hashes *)
get_password_hash(password) == [scheme |-> "bcrypt", digest |-> password]

verify_password(plain_password, hashed_password) ==
    hashed_password.scheme = "bcrypt" /\ hashed_password.digest = plain_password

SECRET_KEY == "mysecret"

(* jose's jwt.encode: the claims, signed with a key.  A token is a record
   with these two fields; any other bearer string is a record without them *)
jwt_encode(claims, key) == [claims |-> claims, key |-> key]

(* the token signed with the key of app/core/security.py, which the access
   guard does not use *)
create_access_token_other_key(data) == jwt_encode(data, "generate-with-openssl")

create_access_token(data) == jwt_encode(data, SECRET_KEY)

(* The bearer tokens a request may present: a string that is no JWT, a
   token signed with another key, a token whose expiry has passed before
   the first request, a token that expires when the clock passes 2, a
   token without 'sub', and the tokens login issues *)
TokenInputs ==
    {[raw |-> "not.a.jwt"],
     jwt_encode([sub |-> "alice"], "forged"),
     jwt_encode([sub |-> "alice", exp |-> 0], SECRET_KEY),
     jwt_encode([sub |-> "alice", exp |-> 2], SECRET_KEY),
     jwt_encode([role |-> "admin"], SECRET_KEY),
     create_access_token([sub |-> "alice"]),
     create_access_token([sub |-> "bob"])}

(* The three ways jwt.decode(token, SECRET_KEY, algorithms=[ALGORITHM])
   raises JWTError: the string is no JWT, the signature was not made with
   SECRET_KEY, the 'exp' claim is in the past *)
Malformed(token) == "claims" \notin DOMAIN token

BadSignature(token) == ~Malformed(token) /\ token.key # SECRET_KEY

Expired(token) ==
    /\ ~Malformed(token)
    /\ "exp" \in DOMAIN token.claims
    /\ token.claims.exp < now

JWTError(token) == Malformed(token) \/ BadSignature(token) \/ Expired(token)

HTTPException(status_code, detail) == [code |-> status_code, detail |-> detail]

(* an expired token accepted: jwt.decode with verify_exp switched off *)
get_current_user_no_expiry(token) ==
    IF Malformed(token) \/ BadSignature(token)
    THEN HTTPException(401, "Invalid token")
    ELSE IF "sub" \notin DOMAIN token.claims
    THEN HTTPException(401, "Invalid token")
    ELSE LET user == {u \in Rows(users) : u.username = token.claims.sub}
         IN IF user = {} THEN HTTPException(401, "User not found")
            ELSE [code |-> 200, user |-> CHOOSE u \in user : TRUE]

(* an expired token told apart from the other decode failures *)
get_current_user_tells_expiry(token) ==
    IF Expired(token) THEN HTTPException(401, "Token has expired")
    ELSE IF JWTError(token) THEN HTTPException(401, "Invalid token")
    ELSE IF "sub" \notin DOMAIN token.claims
    THEN HTTPException(401, "Invalid token")
    ELSE LET user == {u \in Rows(users) : u.username = token.claims.sub}
         IN IF user = {} THEN HTTPException(401, "User not found")
            ELSE [code |-> 200, user |-> CHOOSE u \in user : TRUE]

(* an unknown username let through as a guest, for the role check to turn
   away *)
get_current_user_guest(token) ==
    IF JWTError(token) THEN HTTPException(401, "Invalid token")
    ELSE IF "sub" \notin DOMAIN token.claims
    THEN HTTPException(401, "Invalid token")
    ELSE LET user == {u \in Rows(users) : u.username = token.claims.sub}
         IN IF user = {}
            THEN [code |-> 200,
                  user |-> User(NULL, token.claims.sub, "", get_password_hash(""), "guest")]
            ELSE [code |-> 200, user |-> CHOOSE u \in user : TRUE]

(* The dependency of every protected route: the exception it raises, or
   the user row it returns (users.username is unique) *)
get_current_user(token) ==
    IF JWTError(token) THEN HTTPException(401, "Invalid token")
    ELSE IF "sub" \notin DOMAIN token.claims
    THEN HTTPException(401, "Invalid token")
    ELSE LET user == {u \in Rows(users) : u.username = token.claims.sub}
         IN IF user = {} THEN HTTPException(401, "User not found")
            ELSE [code |-> 200, user |-> CHOOSE u \in user : TRUE]

(* The response to a request that a dependency turned away, with the token
   the request carried *)
Refused(op, exception, token) ==
    [op |-> op, code |-> exception.code, detail |-> exception.detail,
     token |-> token]

---------------------------------------------------------------------------
(* POST /auth/signup: app/routes/auth.py *)

(* the query on the username alone *)
existing_username(username, email) ==
    {u \in Rows(users) : u.username = username}

(* db.query(User).filter((username == ..) | (email == ..)).first() *)
existing_user(username, email) ==
    {u \in Rows(users) : u.username = username \/ u.email = email}

signup(username, email, password, role) ==
    /\ IF existing_user(username, email) # {}
       THEN /\ resp' = Response("signup", 400, NULL, "", "")
            /\ UNCHANGED users
       ELSE /\ users' = Append(users, User(Len(users) + 1, username, email,
                                           get_password_hash(password), role))
            /\ resp' = Response("signup", 200, NULL, "", "")
    /\ UNCHANGED <<books, transactions, inflight, now, requests>>

(* The same handler statement by statement, for requests served
   concurrently: the existence query and, when it finds no row, the commit
   of the pending row.  SignupRequest is what the request's session holds
   between the two *)
SignupRequest(pc, data) == [pc |-> pc, data |-> data]

signup_query(username, email, password, role) ==
    /\ requests < MaxRequests
    /\ requests' = requests + 1
    /\ IF existing_user(username, email) # {}
       THEN /\ resp' = Response("signup", 400, NULL, "", "")
            /\ UNCHANGED inflight
       ELSE /\ inflight' = inflight (+)
                  SetToBag({SignupRequest("signup_commit",
                                          [username |-> username, email |-> email,
                                           hashed_password |-> get_password_hash(password),
                                           role |-> role])})
            /\ UNCHANGED resp
    /\ UNCHANGED <<users, books, transactions, now>>

(* users.username and users.email are declared unique: the INSERT of a row
   with a taken username or email raises IntegrityError *)
IntegrityError(data) ==
    \E u \in Rows(users) : u.username = data.username \/ u.email = data.email

(* db.commit() stands in no try block: the IntegrityError leaves the handler
   and the request is answered 500 *)
signup_commit(r) ==
    /\ r \in BagToSet(inflight)
    /\ r.pc = "signup_commit"
    /\ inflight' = inflight (-) SetToBag({r})
    /\ IF IntegrityError(r.data)
       THEN /\ resp' = Response("signup", 500, NULL, "", "")
            /\ UNCHANGED users
       ELSE /\ users' = Append(users, User(Len(users) + 1, r.data.username, r.data.email,
                                           r.data.hashed_password, r.data.role))
            /\ resp' = Response("signup", 200, NULL, "", "")
    /\ UNCHANGED <<books, transactions, now, requests>>

(* the password not verified *)
login_response_unverified(username, password) ==
    LET user == {u \in Rows(users) : u.username = username}
    IN IF user = {}
       THEN [op |-> "login", code |-> 401, detail |-> "Invalid username or password."]
       ELSE LET u == CHOOSE u \in user : TRUE
            IN [op |-> "login", code |-> 200,
                access_token |-> create_access_token([sub |-> u.username]),
                user |-> [id |-> u.id, username |-> u.username,
                          email |-> u.email, role |-> u.role]]

(* POST /auth/login: the body of the response.  Nothing is written *)
login_response(username, password) ==
    LET user == {u \in Rows(users) : u.username = username}
    IN IF user = {} \/ \A u \in user : ~verify_password(password, u.hashed_password)
       THEN [op |-> "login", code |-> 401, detail |-> "Invalid username or password."]
       ELSE LET u == CHOOSE u \in user : TRUE
            IN [op |-> "login", code |-> 200,
                access_token |-> create_access_token([sub |-> u.username]),
                user |-> [id |-> u.id, username |-> u.username,
                          email |-> u.email, role |-> u.role]]

login(username, password) ==
    /\ resp' = login_response(username, password)
    /\ UNCHANGED <<users, books, transactions, inflight, now, requests>>

---------------------------------------------------------------------------
(* POST /users/: app/main.py.  The route has no dependency; the role of the
   new row is the column's default *)

(* the email not looked up *)
create_user_username_only(username, email, password) ==
    /\ IF \E u \in Rows(users) : u.username = username
       THEN /\ resp' = [op |-> "create_user", code |-> 400,
                        detail |-> "Username already registered"]
            /\ UNCHANGED users
       ELSE /\ users' = Append(users, User(Len(users) + 1, username, email,
                                           get_password_hash(password), "user"))
            /\ resp' = [op |-> "create_user", code |-> 200, detail |-> ""]
    /\ UNCHANGED <<books, transactions, inflight, now, requests>>

create_user(username, email, password) ==
    /\ IF \E u \in Rows(users) : u.username = username
       THEN /\ resp' = [op |-> "create_user", code |-> 400,
                        detail |-> "Username already registered"]
            /\ UNCHANGED users
       ELSE IF \E u \in Rows(users) : u.email = email
       THEN /\ resp' = [op |-> "create_user", code |-> 400,
                        detail |-> "Email already registered"]
            /\ UNCHANGED users
       ELSE /\ users' = Append(users, User(Len(users) + 1, username, email,
                                           get_password_hash(password), "user"))
            /\ resp' = [op |-> "create_user", code |-> 200, detail |-> ""]
    /\ UNCHANGED <<books, transactions, inflight, now, requests>>

---------------------------------------------------------------------------
(* POST /books/: app/main.py *)

(* the validation that precedes the try block *)
create_book_invalid(title, author, isbn) ==
    strip(title) = "" \/ strip(author) = "" \/ strip(isbn) = "" \/ isbn = "N/A"

(* books.isbn is declared unique: the commit of a second row fails *)
isbn_taken(isbn) == \E b \in Rows(books) : b.isbn = isbn

(* The except branch answers 400 when the driver's message holds
   "duplicate key value" and 500 otherwise: which one depends on the
   database behind DATABASE_URL *)
create_book(title, author, isbn) ==
    /\ IF create_book_invalid(title, author, isbn)
       THEN /\ resp' = Response("create_book", 400, NULL, "", "")
            /\ UNCHANGED books
       ELSE IF isbn_taken(isbn)
       THEN /\ \E code \in {400, 500} :
                 resp' = Response("create_book", code, NULL, "", "")
            /\ UNCHANGED books
       ELSE /\ books' = Append(books, Book(Len(books) + 1, title, author, isbn))
            /\ resp' = Response("create_book", 200, NULL, "", "")
    /\ UNCHANGED <<users, transactions, inflight, now, requests>>

(* GET /users/ and GET /books/: app/main.py.  Each reads a whole table and
   answers with it *)
get_users ==
    /\ resp' = [op |-> "get_users", code |-> 200, detail |-> ""]
    /\ UNCHANGED <<users, books, transactions, inflight, now, requests>>

(* the listing puts every book back on the shelf *)
get_books_resetting ==
    /\ resp' = [op |-> "get_books", code |-> 200, detail |-> ""]
    /\ books' = [i \in 1..Len(books) |-> [books[i] EXCEPT !.status = "available"]]
    /\ UNCHANGED <<users, transactions, inflight, now, requests>>

get_books ==
    /\ resp' = [op |-> "get_books", code |-> 200, detail |-> ""]
    /\ UNCHANGED <<users, books, transactions, inflight, now, requests>>

---------------------------------------------------------------------------
(* GET /books/search/: app/routes/books.py *)

(* 'ISBN' in id['type'], for the types drawn above *)
IsIsbnType(type) == type \in {"ISBN_10", "ISBN_13"}

(* next((id['identifier'] for id in industry_ids if 'ISBN' in id['type']),
   "Unknown"): the first identifier of an ISBN type *)
RECURSIVE FirstIsbn(_)
FirstIsbn(industry_ids) ==
    IF industry_ids = <<>> THEN "Unknown"
    ELSE IF IsIsbnType(Head(industry_ids).type) THEN Head(industry_ids).identifier
    ELSE FirstIsbn(Tail(industry_ids))

(* The list the handler builds: one entry for every item of the response,
   in the response's order, with the status written as a literal *)
SearchResult(items) ==
    [i \in 1..Len(items) |->
        [id |-> items[i].id, isbn |-> FirstIsbn(items[i].identifiers),
         status |-> "available"]]

(* The handler has no database session: it reads and writes no table *)
search_books(items) ==
    /\ resp' = [op |-> "search_books", code |-> 200, books |-> SearchResult(items)]
    /\ UNCHANGED <<users, books, transactions, inflight, now, requests>>

---------------------------------------------------------------------------
(* PATCH /books/{isbn}/status: app/routes/book_routes.py update_book_status *)

(* What one request holds in its session between two statements: the user
   that get_current_user resolved, the place it has reached, the book row
   it loaded, the clock reading it took and the transaction row it loaded *)
Request(uid, pc, book_id, date, txn) ==
    [uid |-> uid, pc |-> pc, book_id |-> book_id, date |-> date, txn |-> txn]

One(r) == SetToBag({r})

(* db.query(Book).filter(Book.isbn == isbn).first() *)
FindBook(isbn) == {b \in Rows(books) : b.isbn = isbn}

ValidStatus(status) == status \in {"available", "borrowed"}

(* the borrow branch taken without looking at the book's status *)
IsBorrowAnyStatus(status, book) == status = "borrowed"

IsBorrow(status, book) == status = "borrowed" /\ book.status = "available"

(* the return branch taken without looking at the book's status *)
IsReturnAnyStatus(status, book) == status = "available"

IsReturn(status, book) == status = "available" /\ book.status = "borrowed"

(* no validation of the status: whatever is not a borrow is taken for a
   return *)
AfterBookNoValidation(status, found) ==
    IF found = {} THEN [code |-> 404, pc |-> "done"]
    ELSE LET book == CHOOSE b \in found : TRUE IN
         IF IsBorrow(status, book) THEN [code |-> 0, pc |-> "commit_borrow"]
         ELSE IF book.status = "borrowed" THEN [code |-> 0, pc |-> "query_txn"]
         ELSE [code |-> 400, pc |-> "done"]

(* the status validated before the book is looked for *)
AfterBookValidateFirst(status, found) ==
    IF ~ValidStatus(status) THEN [code |-> 400, pc |-> "done"]
    ELSE IF found = {} THEN [code |-> 404, pc |-> "done"]
    ELSE LET book == CHOOSE b \in found : TRUE IN
         IF IsBorrow(status, book) THEN [code |-> 0, pc |-> "commit_borrow"]
         ELSE IF IsReturn(status, book) THEN [code |-> 0, pc |-> "query_txn"]
         ELSE [code |-> 400, pc |-> "done"]

(* Where the handler stands after loading the book: answered 404 or 400,
   or in one of the two branches *)
AfterBook(status, found) ==
    IF found = {} THEN [code |-> 404, pc |-> "done"]
    ELSE IF ~ValidStatus(status) THEN [code |-> 400, pc |-> "done"]
    ELSE LET book == CHOOSE b \in found : TRUE IN
         IF IsBorrow(status, book) THEN [code |-> 0, pc |-> "commit_borrow"]
         ELSE IF IsReturn(status, book) THEN [code |-> 0, pc |-> "query_txn"]
         ELSE [code |-> 400, pc |-> "done"]

(* The handler's body, entered with the user row u that get_current_user
   returned: it loads the book and either answers at once or
   goes on with the borrow branch (the new Transaction, with its
   borrow_date, and the book's new status are pending in the session) or
   with the return branch *)
update_book_status(u, isbn, status) ==
    /\ u \in Rows(users)
    /\ requests < MaxRequests
    /\ requests' = requests + 1
    /\ LET found == FindBook(isbn)
           next == AfterBook(status, found)
       IN IF next.pc = "done"
          THEN /\ resp' = Response("update_book_status", next.code, u.id, isbn, status)
               /\ UNCHANGED <<inflight, now>>
          ELSE /\ inflight' = inflight (+)
                     One(Request(u.id, next.pc, (CHOOSE b \in found : TRUE).id,
                                 IF next.pc = "commit_borrow" THEN utcnow ELSE NULL, NULL))
               /\ now' = IF next.pc = "commit_borrow" THEN now + 1 ELSE now
               /\ UNCHANGED resp
    /\ UNCHANGED <<users, books, transactions>>

(* db.query(Transaction).filter(book_id == book.id, status == "active"):
   the rows .first() may return (the query has no ORDER BY) *)
ActiveTransactions(book_id) ==
    {t \in Rows(transactions) : t.book_id = book_id /\ t.status = "active"}

QueryTransaction(r) ==
    /\ r \in BagToSet(inflight)
    /\ r.pc = "query_txn"
    /\ LET active == ActiveTransactions(r.book_id)
       IN \E tid \in IF active = {} THEN {NULL} ELSE {t.id : t \in active} :
            /\ inflight' = (inflight (-) One(r)) (+)
                  One([r EXCEPT !.pc = "commit_return", !.txn = tid,
                                !.date = IF tid = NULL THEN NULL ELSE utcnow])
            /\ now' = IF tid = NULL THEN now ELSE now + 1
    /\ UNCHANGED <<users, books, transactions, resp, requests>>

(* the new transaction never added to the session *)
BorrowTransactionsNotAdded(r) == transactions

(* the availability checked again at the commit, as a serialized borrow
   would *)
BorrowTransactionsRechecked(r) ==
    IF books[r.book_id].status = "available"
    THEN Append(transactions,
                Transaction(Len(transactions) + 1, r.uid, r.book_id, r.date, "active"))
    ELSE transactions

(* the book's new status of a borrow left out of the commit *)
CommitBooksReturnOnly(r) ==
    IF r.pc = "commit_borrow" THEN books
    ELSE [books EXCEPT ![r.book_id].status = "available"]

(* The rows the session flushes at db.commit(); the handler then answers
   200 with the book it reloads *)
BorrowTransactions(r) ==
    Append(transactions,
           Transaction(Len(transactions) + 1, r.uid, r.book_id, r.date, "active"))

(* every active transaction closed, whichever book it is for *)
ReturnTransactionsCloseAll(r) ==
    IF r.txn = NULL THEN transactions
    ELSE [i \in 1..Len(transactions) |->
            IF transactions[i].status = "active"
            THEN [transactions[i] EXCEPT !.return_date = r.date, !.status = "returned"]
            ELSE transactions[i]]

(* the status set and the return date left unset *)
ReturnTransactionsStatusOnly(r) ==
    IF r.txn = NULL THEN transactions
    ELSE [transactions EXCEPT ![r.txn].status = "returned"]

ReturnTransactions(r) ==
    IF r.txn = NULL THEN transactions
    ELSE [transactions EXCEPT ![r.txn].return_date = r.date,
                              ![r.txn].status = "returned"]

CommitBooks(r) ==
    [books EXCEPT ![r.book_id].status =
        IF r.pc = "commit_borrow" THEN "borrowed" ELSE "available"]

Commit(r) ==
    /\ r \in BagToSet(inflight)
    /\ r.pc \in {"commit_borrow", "commit_return"}
    /\ transactions' = IF r.pc = "commit_borrow" THEN BorrowTransactions(r)
                       ELSE ReturnTransactions(r)
    /\ books' = CommitBooks(r)
    /\ inflight' = inflight (-) One(r)
    /\ resp' = Response("update_book_status", 200, r.uid, books[r.book_id].isbn,
                        IF r.pc = "commit_borrow" THEN "borrowed" ELSE "available")
    /\ UNCHANGED <<users, now, requests>>

(* The request as it arrives: current_user = Depends(get_current_user) is
   resolved before the handler's body is entered *)
update_book_status_request(token, isbn, status) ==
    LET current_user == get_current_user(token)
    IN IF current_user.code # 200
       THEN /\ resp' = Refused("get_current_user", current_user, token)
            /\ UNCHANGED <<users, books, transactions, inflight, now, requests>>
       ELSE update_book_status(current_user.user, isbn, status)

---------------------------------------------------------------------------
(* The routes under /admin: app/routes/admin.py.  Each has the dependency
   admin_only = RoleChecker(["admin"]), which depends on get_current_user *)

(* the role check opened to every signed-up role *)
any_role == {"admin", "user", "root"}

admin_only == {"admin"}

AdminOps ==
    {"get_all_users", "admin_create_user", "get_all_transactions",
     "get_transactions_report"}

(* What one request to /admin holds between two of its steps: the place it
   has reached, the route, the token it came with, the user row that
   get_current_user returned and the parameters of the route *)
AdminRequest(pc, op, token, current_user, params) ==
    [pc |-> pc, op |-> op, token |-> token, current_user |-> current_user,
     params |-> params]

(* The request arrives: get_current_user, the innermost dependency, runs
   first *)
admin_request(op, token, params) ==
    /\ LET current_user == get_current_user(token)
       IN IF current_user.code # 200
          THEN /\ resp' = Refused("get_current_user", current_user, token)
               /\ UNCHANGED inflight
          ELSE /\ inflight' = inflight (+)
                     One(AdminRequest("role_checker", op, token,
                                      current_user.user, params))
               /\ UNCHANGED resp
    /\ UNCHANGED <<users, books, transactions, now, requests>>

(* RoleChecker's inner function, run with the user get_current_user
   returned; if it returns, the handler of the route is called *)
role_checker(r) ==
    /\ r \in BagToSet(inflight)
    /\ r.pc = "role_checker"
    /\ IF r.current_user.role \notin admin_only
       THEN /\ resp' = Refused("role_checker",
                               HTTPException(403, "Operation not permitted"), r.token)
            /\ inflight' = inflight (-) One(r)
       ELSE /\ inflight' = (inflight (-) One(r)) (+) One([r EXCEPT !.pc = r.op])
            /\ UNCHANGED resp
    /\ UNCHANGED <<users, books, transactions, now, requests>>

(* The answer of a handler under /admin to the request of user uid *)
AdminResponse(op, code, detail, uid) ==
    [op |-> op, code |-> code, detail |-> detail, uid |-> uid]

(* GET /admin/users/, GET /admin/transactions/ and
   GET /admin/transactions/report read a whole table and answer with it *)
get_all_users(r) ==
    /\ r \in BagToSet(inflight)
    /\ r.pc = "get_all_users"
    /\ inflight' = inflight (-) One(r)
    /\ resp' = AdminResponse(r.op, 200, "", r.current_user.id)
    /\ UNCHANGED <<users, books, transactions, now, requests>>

get_all_transactions(r) ==
    /\ r \in BagToSet(inflight)
    /\ r.pc = "get_all_transactions"
    /\ inflight' = inflight (-) One(r)
    /\ resp' = AdminResponse(r.op, 200, "", r.current_user.id)
    /\ UNCHANGED <<users, books, transactions, now, requests>>

get_transactions_report(r) ==
    /\ r \in BagToSet(inflight)
    /\ r.pc = "get_transactions_report"
    /\ inflight' = inflight (-) One(r)
    /\ resp' = AdminResponse(r.op, 200, "", r.current_user.id)
    /\ UNCHANGED <<users, books, transactions, now, requests>>

(* POST /admin/users/: the role of the new row is the role parameter *)
admin_create_user(r) ==
    /\ r \in BagToSet(inflight)
    /\ r.pc = "admin_create_user"
    /\ inflight' = inflight (-) One(r)
    /\ IF \E u \in Rows(users) : u.username = r.params.username
       THEN /\ resp' = AdminResponse(r.op, 400, "Username already exists",
                                     r.current_user.id)
            /\ UNCHANGED users
       ELSE IF \E u \in Rows(users) : u.email = r.params.email
       THEN /\ resp' = AdminResponse(r.op, 400, "Email already exists",
                                     r.current_user.id)
            /\ UNCHANGED users
       ELSE /\ users' = Append(users,
                               User(Len(users) + 1, r.params.username, r.params.email,
                                    get_password_hash(r.params.password),
                                    r.params.role))
            /\ resp' = AdminResponse(r.op, 200, "", r.current_user.id)
    /\ UNCHANGED <<books, transactions, now, requests>>

---------------------------------------------------------------------------
(* The requests that can arrive *)

Arrive ==
    \/ \E u \in Usernames : signup(u, EmailOf(u), "pw1", "user")
    \/ \E b \in BookInputs : create_book(b[1], b[2], b[3])
    \/ \E u \in Rows(users), i \in ISBNs, s \in StatusInputs : update_book_status(u, i, s)

(* The statements of the status requests being served *)

Step ==
    \/ \E r \in BagToSet(inflight) : QueryTransaction(r)
    \/ \E r \in BagToSet(inflight) : Commit(r)

(* Requests served by concurrent workers: a request may arrive, and any
   request being served may run its next statement, at any moment.
   requests counts the status requests received so far *)

Next == Arrive \/ Step

Spec == Init /\ [][Next]_vars

(* The same workers, with the status requests taken as they arrive: each
   carries a bearer token, which get_current_user resolves.  One title is
   put in the catalogue *)

ArriveGuard ==
    \/ \E u \in Usernames : signup(u, EmailOf(u), "pw1", "user")
    \/ create_book("Dune", "Herbert", "999")
    \/ \E t \in TokenInputs, i \in ISBNs, s \in StatusInputs :
          update_book_status_request(t, i, s)

NextGuard == ArriveGuard \/ Step

SpecGuard == Init /\ [][NextGuard]_vars

(* Requests served one at a time, each to completion *)

Idle == inflight = EmptyBag

(* The accounts and the routes under /admin, one request at a time: the
   guard reads user rows only, and no route changes or deletes a user row *)

ArriveAuth ==
    \/ \E u \in Usernames, e \in Emails, r \in RoleInputs :
          signup(u, e, PasswordOf(u), r)
    \/ \E u \in Usernames, e \in Emails : create_user(u, e, PasswordOf(u))
    \/ \E u \in Usernames, p \in Passwords : login(u, p)
    \/ \E t \in TokenInputs,
           op \in {"get_all_users", "get_all_transactions", "get_transactions_report"} :
          admin_request(op, t, <<>>)
    \/ \E t \in TokenInputs, u \in Usernames, e \in Emails, r \in RoleInputs :
          admin_request("admin_create_user", t,
                        [username |-> u, email |-> e, password |-> PasswordOf(u),
                         role |-> r])

StepAuth ==
    \/ \E r \in BagToSet(inflight) : role_checker(r)
    \/ \E r \in BagToSet(inflight) : get_all_users(r)
    \/ \E r \in BagToSet(inflight) : admin_create_user(r)
    \/ \E r \in BagToSet(inflight) : get_all_transactions(r)
    \/ \E r \in BagToSet(inflight) : get_transactions_report(r)

NextAuth == (Idle /\ ArriveAuth) \/ StepAuth

SpecAuth == Init /\ [][NextAuth]_vars

(* Every route of the application, one request at a time, with one title
   put in the catalogue by hand *)

ArriveFrame ==
    \/ \E u \in Usernames, r \in {"user", "admin"} :
          signup(u, EmailOf(u), PasswordOf(u), r)
    \/ \E u \in Usernames : create_user(u, EmailOf(u), PasswordOf(u))
    \/ \E u \in Usernames : login(u, PasswordOf(u))
    \/ get_users
    \/ create_book("Dune", "Herbert", "999")
    \/ get_books
    \/ \E c \in CatalogInputs : search_books(c)
    \/ \E u \in Rows(users), s \in StatusInputs : update_book_status(u, "999", s)
    \/ \E u \in Usernames,
           op \in {"get_all_users", "get_all_transactions", "get_transactions_report"} :
          admin_request(op, create_access_token([sub |-> u]), <<>>)
    \/ \E u \in Usernames :
          admin_request("admin_create_user", create_access_token([sub |-> u]),
                        [username |-> "bob", email |-> EmailOf("bob"),
                         password |-> PasswordOf("bob"), role |-> "user"])

NextFrame == (Idle /\ ArriveFrame) \/ Step \/ StepAuth

SpecFrame == Init /\ [][NextFrame]_vars

(* Signups served concurrently *)

ArriveSignup ==
    \E u \in Usernames, e \in Emails : signup_query(u, e, PasswordOf(u), "user")

StepSignup == \E r \in BagToSet(inflight) : signup_commit(r)

NextSignup == ArriveSignup \/ StepSignup

SpecSignup == Init /\ [][NextSignup]_vars

NextSeq == (Idle /\ Arrive) \/ Step

SpecSeq == Init /\ [][NextSeq]_vars

---------------------------------------------------------------------------
(* Vocabulary of the properties *)

BookIds == 1..Len(books)

TxnIds == 1..Len(transactions)

Serving == BagToSet(inflight)

(* The step takes r out of the requests being served, or puts it there *)
Leaves(r) == CopiesIn(r, inflight') < CopiesIn(r, inflight)

Enters(r) == CopiesIn(r, inflight') > CopiesIn(r, inflight)

(* The step is a status request for (isbn, status) answered by the handler's
   first statement *)
AnsweredAtOnce(isbn, status) ==
    /\ inflight' = inflight
    /\ resp' # resp
    /\ resp'.op = "update_book_status"
    /\ resp'.isbn = isbn
    /\ resp'.status = status

(* The step commits the borrow, or the return, that r is *)
CommitsBorrow(r) == r.pc = "commit_borrow" /\ Leaves(r)

CommitsReturn(r) == r.pc = "commit_return" /\ Leaves(r)

StoreUnchanged == UNCHANGED <<users, books, transactions>>

OldRowsUnchanged ==
    /\ Len(transactions') >= Len(transactions)
    /\ \A i \in TxnIds : transactions'[i] = transactions[i]

ActiveAfter(book_id) ==
    {i \in 1..Len(transactions') :
        transactions'[i].book_id = book_id /\ transactions'[i].status = "active"}

(* What can be wrong with a bearer token, besides the three decode
   failures: it decodes but has no 'sub', or its 'sub' is no username *)
LacksSub(token) == ~JWTError(token) /\ "sub" \notin DOMAIN token.claims

NamesNoUser(token) ==
    /\ ~JWTError(token)
    /\ "sub" \in DOMAIN token.claims
    /\ \A u \in Rows(users) : u.username # token.claims.sub

Unauthenticated(token) == JWTError(token) \/ LacksSub(token) \/ NamesNoUser(token)

(* get_current_user raises 401 for these tokens and for no other *)
UnauthenticatedRaises ==
    \A t \in TokenInputs :
        Unauthenticated(t) <=> get_current_user(t).code = 401

(* get_current_user raises one and the same exception for every token
   that does not decode *)
SameDecodeFailure ==
    \A t \in TokenInputs :
        (Malformed(t) \/ BadSignature(t) \/ Expired(t)) =>
           get_current_user(t) = get_current_user([raw |-> "not.a.jwt"])

(* The step answers, and the answer comes from this dependency or handler *)
AnsweredBy(op) == resp' # resp /\ resp'.op = op

(* The requests to the routes under /admin: the route and its parameters *)
AdminCalls ==
    {<<op, <<>>>> : op \in AdminOps \ {"admin_create_user"}}
    \cup {<<"admin_create_user", q>> :
             q \in [username : Usernames, email : Emails, password : Passwords,
                    role : RoleInputs]}

---------------------------------------------------------------------------
(* C1: every book is 'borrowed' exactly when some 'active' transaction
   references it *)
BorrowedIffActive ==
    \A b \in Rows(books) :
        b.status = "borrowed" <=> ActiveTransactions(b.id) # {}

(* C2: no book has more than one 'active' transaction *)
AtMostOneActive ==
    \A b \in Rows(books) : Cardinality(ActiveTransactions(b.id)) <= 1

(* C3: a return by user U that meets the active transaction of another
   user V is answered 400 and leaves the book 'borrowed' and V's transaction
   'active' with no return date *)
ReturnOnlyOwnLoan ==
    [][\A r \in Serving :
          (/\ r.pc = "commit_return"
           /\ r.txn # NULL
           /\ transactions[r.txn].user_id # r.uid)
          => /\ resp'.code = 400
             /\ books'[r.book_id].status = "borrowed"
             /\ transactions'[r.txn].status = "active"
             /\ transactions'[r.txn].return_date = NULL]_vars

(* C4: a borrow request for a book that is not 'available' is answered 400
   by the first statement, whoever asks: it never reaches the borrow branch,
   and the store is left as it was *)
BorrowConflict ==
    [][\A b \in Rows(books) :
          b.status # "available" =>
             /\ \A r \in BagToSet(inflight') :
                   (r.pc = "commit_borrow" /\ r.book_id = b.id) => ~Enters(r)
             /\ AnsweredAtOnce(b.isbn, "borrowed") =>
                   (resp'.code = 400 /\ StoreUnchanged)]_vars

BorrowConflictWitness ==
    /\ resp.op = "update_book_status"
    /\ resp.status = "borrowed"
    /\ resp.code = 400
    /\ \E b \in Rows(books) :
          /\ b.isbn = resp.isbn
          /\ b.status = "borrowed"
          /\ \E t \in ActiveTransactions(b.id) : t.user_id = resp.uid

(* C5: a borrow request for an 'available' book is not turned away, and its
   commit answers 200, adds exactly one transaction (the requesting user,
   that book, 'active', no return date) and leaves the book 'borrowed' *)
BorrowSucceeds ==
    [][/\ \A b \in Rows(books) :
             b.status = "available" => ~AnsweredAtOnce(b.isbn, "borrowed")
       /\ \A r \in Serving :
             CommitsBorrow(r) =>
                /\ resp' = Response("update_book_status", 200, r.uid,
                                    books[r.book_id].isbn, "borrowed")
                /\ Len(transactions') = Len(transactions) + 1
                /\ OldRowsUnchanged
                /\ LET t == transactions'[Len(transactions')]
                   IN /\ t.user_id = r.uid
                      /\ t.book_id = r.book_id
                      /\ t.status = "active"
                      /\ t.return_date = NULL
                /\ books'[r.book_id].status = "borrowed"]_vars

BorrowSucceedsWitness ==
    /\ resp.op = "update_book_status"
    /\ resp.status = "borrowed"
    /\ resp.code = 200
    /\ transactions # <<>>
    /\ LET t == transactions[Len(transactions)]
       IN /\ t.user_id = resp.uid
          /\ t.status = "active"
          /\ books[t.book_id].isbn = resp.isbn
          /\ books[t.book_id].status = "borrowed"

(* C6: a return by user U for a book with an active transaction of U loads
   that transaction; its commit answers 200, gives the transaction a return
   date and the status 'returned', makes the book 'available' and touches no
   other transaction *)
ReturnClosesOwnLoan ==
    [][\A r \in Serving :
          /\ (r.pc = "query_txn" /\ Leaves(r)) =>
                LET own == {t \in ActiveTransactions(r.book_id) : t.user_id = r.uid}
                IN own # {} =>
                      \E q \in BagToSet(inflight') :
                          Enters(q) /\ q.txn \in {t.id : t \in own}
          /\ (CommitsReturn(r) /\ r.txn # NULL) =>
                /\ resp'.code = 200
                /\ transactions'[r.txn].status = "returned"
                /\ transactions'[r.txn].return_date # NULL
                /\ books'[r.book_id].status = "available"
                /\ Len(transactions') = Len(transactions)
                /\ \A i \in TxnIds \ {r.txn} : transactions'[i] = transactions[i]]_vars

(* C7: the two writes of a borrow, and the two writes of a return, reach the
   store in one step: no step adds a transaction without making its book
   'borrowed' or the reverse, and no step closes a transaction without
   making its book 'available'; a step that makes a book 'available' closes
   the transaction the return had loaded *)
CommitAtomic ==
    [][/\ \A i \in 1..Len(transactions') :
             i > Len(transactions) =>
                books'[transactions'[i].book_id].status = "borrowed"
       /\ \A i \in TxnIds :
             transactions'[i] # transactions[i] =>
                /\ transactions'[i].status = "returned"
                /\ books'[transactions[i].book_id].status = "available"
       /\ \A b \in BookIds :
             books'[b] # books[b] =>
                \E r \in Serving :
                   /\ Leaves(r)
                   /\ r.pc \in {"commit_borrow", "commit_return"}
                   /\ r.book_id = b
                   /\ r.pc = "commit_borrow" =>
                         /\ Len(transactions') = Len(transactions) + 1
                         /\ transactions'[Len(transactions')].book_id = b
                         /\ transactions'[Len(transactions')].status = "active"
                   /\ (r.pc = "commit_return" /\ r.txn # NULL) =>
                         transactions'[r.txn].status = "returned"]_vars

CommitAtomicWitness ==
    /\ resp.op = "update_book_status"
    /\ resp.code = 200
    /\ resp.status = "available"
    /\ \E t \in Rows(transactions) :
          /\ t.status = "returned"
          /\ t.return_date # NULL
          /\ books[t.book_id].isbn = resp.isbn
          /\ books[t.book_id].status = "available"

(* C8: a borrow that read the book as 'available' commits although another
   borrow of the same book has committed since: it is answered 200 and the
   book is left with two or more active transactions *)
DoubleBorrowCommits ==
    [][\A r \in Serving :
          (CommitsBorrow(r) /\ books[r.book_id].status = "borrowed") =>
             /\ resp'.code = 200
             /\ Cardinality(ActiveAfter(r.book_id)) >= 2]_vars

DoubleBorrowWitness ==
    /\ resp.op = "update_book_status"
    /\ resp.status = "borrowed"
    /\ resp.code = 200
    /\ \E b \in Rows(books) :
          /\ b.isbn = resp.isbn
          /\ Cardinality(ActiveTransactions(b.id)) = 2

(* C9: a status request whose isbn matches no book is answered 404 by the
   first statement, whatever status it asks for, and changes nothing; the
   requests that go on hold a book that exists *)
MissingBookNotFound ==
    [][/\ \A i \in ISBNs, s \in StatusInputs :
             (FindBook(i) = {} /\ AnsweredAtOnce(i, s)) =>
                (resp'.code = 404 /\ StoreUnchanged)
       /\ \A r \in BagToSet(inflight') :
             Enters(r) => r.book_id \in BookIds]_vars

MissingBookWitness ==
    /\ resp.op = "update_book_status"
    /\ resp.code = 404
    /\ resp.status = "lost"
    /\ FindBook(resp.isbn) = {}
    /\ books # <<>>

(* C10: a return request for a book that is already 'available' is answered
   400 by the first statement and changes nothing; it never reaches the
   return branch *)
DoubleReturnConflict ==
    [][\A b \in Rows(books) :
          b.status = "available" =>
             /\ \A r \in BagToSet(inflight') :
                   (r.pc = "query_txn" /\ r.book_id = b.id) => ~Enters(r)
             /\ AnsweredAtOnce(b.isbn, "available") =>
                   (resp'.code = 400 /\ StoreUnchanged)]_vars

DoubleReturnWitness ==
    /\ resp.op = "update_book_status"
    /\ resp.status = "available"
    /\ resp.code = 400
    /\ \E b \in Rows(books) :
          /\ b.isbn = resp.isbn
          /\ b.status = "available"
          /\ \E t \in Rows(transactions) :
                /\ t.book_id = b.id
                /\ t.user_id = resp.uid
                /\ t.status = "returned"

(* C11: a status request for a book that exists, asking for a status other
   than 'available' and 'borrowed', is answered 400 by the first statement,
   whoever asks and whatever the book's status, and the store is left as it
   was; no request that enters a branch of the handler is such a request *)
InvalidStatusRejected ==
    [][\A b \in Rows(books), s \in StatusInputs \ {"available", "borrowed"} :
          /\ AnsweredAtOnce(b.isbn, s) => (resp'.code = 400 /\ StoreUnchanged)
          /\ inflight' # inflight =>
                \A u \in Rows(users) : ~update_book_status(u, b.isbn, s)]_vars

InvalidStatusWitness ==
    /\ resp.op = "update_book_status"
    /\ resp.status = "lost"
    /\ resp.code = 400
    /\ \E b \in Rows(books) :
          /\ b.isbn = resp.isbn
          /\ b.status = "borrowed"
          /\ ActiveTransactions(b.id) # {}

(* C12: to a token that fails to decode, has no 'sub' or names no user
   get_current_user answers with a 401 exception, and a status request
   carrying it is answered with that exception: the handler is not entered,
   so no book or transaction is read or written and the store is left as
   it was.  No request that enters the handler carries such a token; the
   requests that enter it, and its answers, belong to a user that a token
   resolves to *)
OnlyAuthenticatedBorrow ==
    /\ []UnauthenticatedRaises
    /\ [][/\ AnsweredBy("get_current_user") =>
                /\ Unauthenticated(resp'.token)
                /\ resp'.code = 401
                /\ resp'.detail = get_current_user(resp'.token).detail
                /\ UNCHANGED <<users, books, transactions, inflight, requests>>
          /\ requests' # requests =>
                /\ requests' = requests + 1
                /\ \A t \in TokenInputs :
                      Unauthenticated(t) =>
                         \A i \in ISBNs, s \in StatusInputs :
                            ~update_book_status_request(t, i, s)
                /\ \E t \in TokenInputs, u \in Rows(users) :
                      /\ ~Unauthenticated(t)
                      /\ u.username = t.claims.sub
                      /\ \/ /\ inflight' = inflight
                            /\ resp'.op = "update_book_status"
                            /\ resp'.uid = u.id
                         \/ \E r \in BagToSet(inflight') : Enters(r) /\ r.uid = u.id
          /\ \A r \in BagToSet(inflight') :
                (Enters(r) /\ r.pc \in {"commit_borrow", "query_txn"}) =>
                   requests' # requests
          /\ (AnsweredBy("update_book_status") /\ inflight' = inflight) =>
                requests' # requests]_vars

OnlyAuthenticatedWitness ==
    /\ resp.op = "get_current_user"
    /\ resp.code = 401
    /\ resp.detail = "User not found"
    /\ NamesNoUser(resp.token)
    /\ \E b \in Rows(books) :
          b.status = "borrowed" /\ ActiveTransactions(b.id) # {}

(* C13: the handlers of the four routes under /admin run only for a caller
   whose role is 'admin': a request that reaches the role check with any
   other role is answered 403 there, goes no further and changes nothing;
   every request that stands at a handler, every answer of a handler and
   every user row added by POST /admin/users/ belongs to an 'admin' caller *)
AdminOnly ==
    [][/\ \A r \in Serving :
             /\ r.pc \in AdminOps => r.current_user.role = "admin"
             /\ (r.pc = "role_checker" /\ Leaves(r)) =>
                   IF r.current_user.role = "admin"
                   THEN /\ Enters([r EXCEPT !.pc = r.op])
                        /\ resp' = resp
                        /\ StoreUnchanged
                   ELSE /\ resp'.op = "role_checker"
                        /\ resp'.code = 403
                        /\ inflight' = inflight (-) One(r)
                        /\ StoreUnchanged
       /\ \A op \in AdminOps :
             AnsweredBy(op) =>
                \E r \in Serving :
                   /\ Leaves(r)
                   /\ r.pc = op
                   /\ r.op = op
                   /\ r.current_user.role = "admin"
                   /\ r.current_user \in Rows(users)]_vars

AdminOnlyWitness ==
    /\ resp.op = "role_checker"
    /\ resp.code = 403
    /\ ~Unauthenticated(resp.token)
    /\ \E u \in Rows(users) :
          u.username = resp.token.claims.sub /\ u.role = "root"
    /\ \E u \in Rows(users) : u.role = "admin"

(* C14: a request to a route under /admin passes get_current_user, then
   the role check, then the handler, in this order.  With a token that fails
   to decode, has no 'sub' or names no user it is answered 401 on arrival and
   goes no further; a request stands at the role check or at a handler only
   with the user row its token resolves to, and at a handler only coming
   from the role check; 403 is answered only to a request that leaves the
   role check, and 401 only to one that arrives *)
GuardOrder ==
    [][/\ \A t \in TokenInputs :
             Unauthenticated(t) =>
                \A call \in AdminCalls :
                   admin_request(call[1], t, call[2]) =>
                      /\ resp'.op = "get_current_user"
                      /\ resp'.code = 401
                      /\ resp'.token = t
                      /\ inflight' = inflight
                      /\ StoreUnchanged
       /\ \A r \in Serving \cup BagToSet(inflight') :
             /\ r.pc \in AdminOps \cup {"role_checker"}
             /\ ~Unauthenticated(r.token)
             /\ r.current_user \in Rows(users)
             /\ r.current_user.username = r.token.claims.sub
       /\ \A r \in BagToSet(inflight') :
             Enters(r) =>
                IF r.pc = "role_checker"
                THEN inflight = EmptyBag /\ resp' = resp
                ELSE \E q \in Serving :
                        Leaves(q) /\ q.pc = "role_checker" /\ r = [q EXCEPT !.pc = q.op]
       /\ AnsweredBy("role_checker") =>
             /\ resp'.code = 403
             /\ \E r \in Serving : Leaves(r) /\ r.pc = "role_checker"
       /\ AnsweredBy("get_current_user") =>
             /\ resp'.code = 401
             /\ Unauthenticated(resp'.token)
             /\ inflight = EmptyBag
             /\ inflight' = EmptyBag]_vars

GuardOrderWitness ==
    /\ resp.op = "get_current_user"
    /\ resp.code = 401
    /\ resp.detail = "User not found"
    /\ NamesNoUser(resp.token)
    /\ \E u \in Rows(users) : u.role = "admin"

(* C15: the token of a successful login resolves, through get_current_user,
   to the user row with the username it was issued for, which is its 'sub':
   so for every user row and the password that verifies against it, so for
   the token of the last login answered, however many users have signed up
   since, and so for the request to /admin that presents it *)
TokenRoundTrip ==
    /\ \A u \in Rows(users), p \in Passwords :
          LET issued == login_response(u.username, p)
          IN issued.code = 200 =>
                /\ issued.access_token.claims.sub = u.username
                /\ ~JWTError(issued.access_token)
                /\ get_current_user(issued.access_token) = [code |-> 200, user |-> u]
    /\ (resp.op = "login" /\ resp.code = 200) =>
          LET current_user == get_current_user(resp.access_token)
          IN /\ current_user.code = 200
             /\ current_user.user.username = resp.user.username
             /\ current_user.user.id = resp.user.id
             /\ resp.access_token.claims.sub = resp.user.username
             /\ \A r \in Serving :
                   r.token = resp.access_token => r.current_user = current_user.user

TokenRoundTripWitness ==
    /\ resp.op = "login"
    /\ resp.code = 200
    /\ resp.user.username = "bob"
    /\ Len(users) = 2
    /\ \E r \in Serving :
          /\ r.token = resp.access_token
          /\ r.pc = "get_all_users"
          /\ r.current_user.username = "bob"

(* C16: every token issued by login carries an expiry claim, 60 minutes
   after the issuance, and a token presented after its expiry is answered
   401 *)
LoginTokensExpire ==
    /\ (resp.op = "login" /\ resp.code = 200) =>
          "exp" \in DOMAIN resp.access_token.claims
    /\ \A t \in TokenInputs :
          Expired(t) => get_current_user(t) = HTTPException(401, "Invalid token")

(* C17: the three decode failures are answered alike: every token that is
   malformed, wrongly signed or expired gets from get_current_user the
   exception that the malformed token gets, and a status request carrying
   one of them is answered with status 401 and the message 'Invalid token',
   in which the three cases do not differ, and never enters the handler *)
DecodeFailsUniformly ==
    /\ []SameDecodeFailure
    /\ [][/\ AnsweredBy("get_current_user") =>
                LET t == resp'.token
                IN (Malformed(t) \/ BadSignature(t) \/ Expired(t)) =>
                      resp' = [op |-> "get_current_user", code |-> 401,
                               detail |-> "Invalid token", token |-> t]
          /\ requests' # requests =>
                \A t \in TokenInputs :
                   (Malformed(t) \/ BadSignature(t) \/ Expired(t)) =>
                      \A i \in ISBNs, s \in StatusInputs :
                         ~update_book_status_request(t, i, s)]_vars

DecodeFailsWitness ==
    /\ resp.op = "get_current_user"
    /\ resp.code = 401
    /\ resp.detail = "Invalid token"
    /\ Expired(resp.token)
    /\ resp.token.claims.exp >= 2
    /\ ~BadSignature(resp.token)
    /\ \E u \in Rows(users) : u.username = resp.token.claims.sub

(* C18: a signup whose username is the username of a user, or whose email
   is the email of a user, is answered 400 and leaves the user table as it
   was; a signup whose username and email are both unused is answered 200
   and adds one user row, with that username, that email and a hash of that
   password, changing no other row *)
SignupUnique ==
    [][\A n \in Usernames, e \in Emails, p \in Passwords, role \in RoleInputs :
          signup(n, e, p, role) =>
             /\ resp'.op = "signup"
             /\ IF \E u \in Rows(users) : u.username = n \/ u.email = e
                THEN resp'.code = 400 /\ users' = users
                ELSE /\ resp'.code = 200
                     /\ Len(users') = Len(users) + 1
                     /\ \A i \in 1..Len(users) : users'[i] = users[i]
                     /\ users'[Len(users')].username = n
                     /\ users'[Len(users')].email = e
                     /\ verify_password(p, users'[Len(users')].hashed_password)
             /\ UNCHANGED <<books, transactions, inflight>>]_vars

SignupUniqueWitness ==
    /\ resp.op = "signup"
    /\ resp.code = 400
    /\ Len(users) = 1
    /\ users[1].username = "alice"
    /\ users[1].email = "b@x.com"

(* C19: login answers 200 with a token for the username exactly when a user
   with that username exists and the password verifies against the hash
   stored for it; otherwise it answers 401, with one and the same response
   whether the username is unknown or the password is wrong; a login
   changes no user, book or transaction and starts nothing *)
LoginCorrect ==
    [][\A n \in Usernames, p \in Passwords :
          login(n, p) =>
             /\ IF \E u \in Rows(users) :
                      u.username = n /\ verify_password(p, u.hashed_password)
                THEN /\ resp'.op = "login"
                     /\ resp'.code = 200
                     /\ resp'.access_token = jwt_encode([sub |-> n], SECRET_KEY)
                     /\ resp'.user.username = n
                ELSE resp' = [op |-> "login", code |-> 401,
                              detail |-> "Invalid username or password."]
             /\ StoreUnchanged
             /\ inflight' = inflight]_vars

LoginCorrectWitness ==
    /\ resp.op = "login"
    /\ resp.code = 401
    /\ Len(users) = 1
    /\ login_response(users[1].username, "pw2") = resp
    /\ login_response("bob", "pw2") = resp
    /\ login_response(users[1].username, "pw1").code = 200

(* C20: the role of every user row is one of 'user', 'librarian', 'admin' *)
RolesValid ==
    \A u \in Rows(users) : u.role \in {"user", "librarian", "admin"}

(* C21: no step changes the role of a user row that exists, and a step that
   adds a user row with the role 'admin' is the creation step of a
   POST /admin/users/ request whose caller is an authenticated user with
   the role 'admin' *)
RoleOnlyByAdmin ==
    [][/\ Len(users') >= Len(users)
       /\ \A i \in 1..Len(users) : users'[i].role = users[i].role
       /\ \A i \in (Len(users) + 1)..Len(users') :
             users'[i].role = "admin" =>
                \E r \in BagToSet(inflight) :
                   /\ admin_create_user(r)
                   /\ r.current_user.role = "admin"]_vars

(* C22: the status of every book is 'available' or 'borrowed'; a book row
   that is added has the status 'available'; and the status of a book that
   exists is changed only by the commit of a borrow or return request:
   every other step (signup, login, user creation, book creation, catalogue
   search, the listings and the steps of the /admin requests) leaves the
   status of every existing book as it was *)
BookStatusFrame ==
    /\ [](\A b \in Rows(books) : b.status \in {"available", "borrowed"})
    /\ [][/\ Len(books') >= Len(books)
          /\ \A i \in (Len(books) + 1)..Len(books') : books'[i].status = "available"
          /\ (\E i \in BookIds : books'[i].status # books[i].status) =>
                /\ \E r \in Serving : CommitsBorrow(r) \/ CommitsReturn(r)
                /\ resp'.op = "update_book_status"
                /\ resp'.code = 200]_vars

BookStatusFrameWitness ==
    /\ Len(books) = 1
    /\ books[1].status = "borrowed"
    /\ resp.op = "get_books"
    /\ Len(users) = 2

(* C23: after a catalogue search every ISBN of the returned list has a row
   in the book table: an ISBN that had none has a new row with the status
   'available', every row that existed is as it was, and the status
   returned with each entry is the status of the row with its ISBN *)
SearchUpsertsLocal ==
    [][\A c \in CatalogInputs :
          search_books(c) =>
             /\ Len(books') >= Len(books)
             /\ \A i \in BookIds : books'[i] = books[i]
             /\ \A i \in (Len(books) + 1)..Len(books') : books'[i].status = "available"
             /\ \A i \in 1..Len(resp'.books) :
                   \E b \in Rows(books') :
                      /\ b.isbn = resp'.books[i].isbn
                      /\ b.status = resp'.books[i].status]_vars

(* C24: whatever the catalogue answers, the list a search returns has no
   two entries with the same ISBN and no entry whose ISBN is the sentinel
   that stands for an item without an ISBN *)
SearchDistinctIsbns ==
    [][\A c \in CatalogInputs :
          search_books(c) =>
             /\ \A i, j \in 1..Len(resp'.books) :
                   resp'.books[i].isbn = resp'.books[j].isbn => i = j
             /\ \A i \in 1..Len(resp'.books) :
                   resp'.books[i].isbn # "Unknown"]_vars

(* C25: with signup, POST /users/ and POST /admin/users/ served one request
   at a time, no two user rows have the same username and no two have the
   same email; a step that changes the user table adds one row, whose
   username and email no row had, and is answered 200; a creation that is
   answered with a refusal leaves the user table as it was *)
UsersUnique ==
    /\ [](\A i, j \in 1..Len(users) :
            (users[i].username = users[j].username \/ users[i].email = users[j].email)
               => i = j)
    /\ [][/\ users' # users =>
                /\ Len(users') = Len(users) + 1
                /\ \A i \in 1..Len(users) : users'[i] = users[i]
                /\ \A u \in Rows(users) :
                      /\ u.username # users'[Len(users')].username
                      /\ u.email # users'[Len(users')].email
                /\ resp'.op \in {"signup", "create_user", "admin_create_user"}
                /\ resp'.code = 200
          /\ (/\ resp'.op \in {"signup", "create_user", "admin_create_user"}
              /\ resp'.code # 200) => users' = users]_vars

UsersUniqueWitness ==
    /\ Len(users) = 1
    /\ resp = [op |-> "create_user", code |-> 400, detail |-> "Email already registered"]

(* C26: with requests served one at a time, a borrow commits on an
   'available' book, sets it 'borrowed' and appends one 'active'
   transaction, changing nothing else; and when the request answered next
   is the same user's return of the same book, its commit closes that very
   transaction (the last one: 'returned', with a return date), sets the
   book 'available' again and changes no other book and no other
   transaction.  So the pair leaves the store as it was before the borrow,
   plus one 'returned' transaction *)
BorrowThenReturn ==
    [][\A r \in Serving :
          /\ CommitsBorrow(r) =>
                /\ books[r.book_id].status = "available"
                /\ books' = [books EXCEPT ![r.book_id].status = "borrowed"]
                /\ transactions' =
                      Append(transactions,
                             Transaction(Len(transactions) + 1, r.uid, r.book_id,
                                         r.date, "active"))
                /\ users' = users
          /\ (/\ CommitsReturn(r)
              /\ resp = Response("update_book_status", 200, r.uid,
                                 books[r.book_id].isbn, "borrowed")) =>
                LET n == Len(transactions)
                IN /\ n > 0
                   /\ transactions[n] = Transaction(n, r.uid, r.book_id,
                                                    transactions[n].borrow_date, "active")
                   /\ books[r.book_id].status = "borrowed"
                   /\ r.txn = n
                   /\ r.date # NULL
                   /\ books' = [books EXCEPT ![r.book_id].status = "available"]
                   /\ transactions' =
                         [transactions EXCEPT ![n].status = "returned",
                                              ![n].return_date = r.date]
                   /\ users' = users]_vars

BorrowThenReturnWitness ==
    /\ Len(books) = 2
    /\ Len(transactions) = 2
    /\ transactions[1].status = "active"
    /\ transactions[2].status = "returned"
    /\ transactions[2].return_date # NULL
    /\ transactions[2].book_id # transactions[1].book_id
    /\ books[transactions[1].book_id].status = "borrowed"
    /\ books[transactions[2].book_id].status = "available"
    /\ resp = Response("update_book_status", 200, transactions[2].user_id,
                       books[transactions[2].book_id].isbn, "available")

(* C27: every transaction has the status 'active' or 'returned'; it is
   'active' exactly when its return date is unset and 'returned' exactly
   when its return date is set *)
StatusMatchesReturnDate ==
    \A t \in Rows(transactions) :
       /\ t.status \in {"active", "returned"}
       /\ t.status = "active" <=> t.return_date = NULL
       /\ t.status = "returned" <=> t.return_date # NULL

StatusMatchesReturnDateWitness ==
    /\ \E t \in Rows(transactions) : t.status = "returned" /\ t.return_date # NULL
    /\ \E t \in Rows(transactions) : t.status = "active" /\ t.return_date = NULL

(* C28: no step removes a transaction or changes the user, the book or the
   borrow date of one, and no step changes a transaction that is
   'returned': it stays 'returned' and keeps its return date *)
HistoryAppendOnly ==
    [][/\ Len(transactions') >= Len(transactions)
       /\ \A i \in TxnIds :
             /\ transactions'[i].id = transactions[i].id
             /\ transactions'[i].user_id = transactions[i].user_id
             /\ transactions'[i].book_id = transactions[i].book_id
             /\ transactions'[i].borrow_date = transactions[i].borrow_date
             /\ transactions[i].status = "returned" =>
                   /\ transactions'[i].status = "returned"
                   /\ transactions'[i].return_date = transactions[i].return_date]_vars

(* C29: when signups are interleaved, the commit of a signup whose username
   or email a row has taken since its existence query adds no row and is
   answered 400, as a duplicate signup is; the commit of any other signup
   adds one row and is answered 200; so no two rows share a username or an
   email *)
SignupRace ==
    /\ [](\A i, j \in 1..Len(users) :
            (users[i].username = users[j].username \/ users[i].email = users[j].email)
               => i = j)
    /\ [][\A r \in Serving :
             (r.pc = "signup_commit" /\ Leaves(r)) =>
                /\ resp'.op = "signup"
                /\ IF \E u \in Rows(users) :
                         u.username = r.data.username \/ u.email = r.data.email
                   THEN resp'.code = 400 /\ users' = users
                   ELSE resp'.code = 200 /\ Len(users') = Len(users) + 1]_vars

(* C30: a POST /books/ request with a blank title, author or ISBN, or with
   the ISBN 'N/A', is answered 400 and writes nothing; one whose ISBN a
   book row has is answered 400 and leaves the book table as it was; any
   other adds one row; so no two book rows have the same ISBN *)
ManualBookCreation ==
    /\ [](\A i, j \in 1..Len(books) : books[i].isbn = books[j].isbn => i = j)
    /\ [][\A b \in BookInputs :
             create_book(b[1], b[2], b[3]) =>
                /\ resp'.op = "create_book"
                /\ IF create_book_invalid(b[1], b[2], b[3]) \/ isbn_taken(b[3])
                   THEN resp'.code = 400 /\ books' = books
                   ELSE /\ resp'.code = 200
                        /\ Len(books') = Len(books) + 1
                        /\ \A k \in BookIds : books'[k] = books[k]
                        /\ books'[Len(books')].isbn = b[3]]_vars

=============================================================================
